---- MODULE Spec2Model ----
(***************************************************************************)
(* A model of the ML pipeline glue of this repository:                     *)
(*   scripts/lambda_handler.py   the pipeline Lambda (S3 trigger, direct   *)
(*                               invocation, scheduled trigger)            *)
(*   scripts/batch_inference.py  the batch-inference Lambda                *)
(*   scripts/train_model.py      the training script that writes the model *)
(*                               artifacts                                 *)
(* The external services (S3, SageMaker, CloudWatch) are the environment:  *)
(* the two buckets are state, every call is recorded in the log of the     *)
(* invocation, and any call may fail (the fault set of the invocation).    *)
(***************************************************************************)
EXTENDS Integers, Sequences, FiniteSets, TLC

VARIABLES s3, now, last

vars == <<s3, now, last>>

(***************************************************************************)
(* Bounds of the model.                                                    *)
(***************************************************************************)
\* The clock (seconds, as far as LastModified and the timestamps in the
\* names of the artifacts tell them apart) runs from 0 to MaxClock.
MaxClock == 1
\* An S3 event carries at most MaxRecords records.
MaxRecords == 1
\* At most MaxFaults calls of one invocation fail for reasons of the
\* environment (throttling, outage, permissions).
MaxFaults == 1

(***************************************************************************)
(* Program constants.                                                      *)
(***************************************************************************)
DATA_BUCKET == "data-bucket"
ARTIFACTS_BUCKET == "artifacts-bucket"
\* objects[5:] in cleanup_old_models
KEEP_MODELS == 5

Buckets == {DATA_BUCKET, ARTIFACTS_BUCKET}

(***************************************************************************)
(* Object keys.  A key is a string; the model writes it as the sequence of *)
(* its pieces, chosen so that the substrings the code tests for ('raw/',   *)
(* '.csv', 'processed/', 'models/') are pieces of their own.               *)
(***************************************************************************)
Digits == <<"0", "1", "2", "3", "4", "5", "6", "7", "8", "9">>

\* datetime.now().strftime(...): the clock reading as a string
strftime(t) == Digits[t + 1]

\* str.startswith(prefix)
startswith(key, prefix) == Len(key) >= 1 /\ key[1] = prefix

\* str.endswith(suffix)
endswith(key, suffix) == Len(key) >= 1 /\ key[Len(key)] = suffix

\* str.replace(old, new): every occurrence is replaced
replace(key, old, new) ==
    [i \in 1..Len(key) |-> IF key[i] = old THEN new ELSE key[i]]

\* The order of the pieces as strings (ASCII).
PieceOrder ==
    <<".csv", ".joblib", ".json", ".txt",
      "0", "1", "2", "3", "4", "5", "6", "7", "8", "9",
      "a", "b", "batch_input", "batch_predictions_",
      "feature_names_",
      "latest_feature_names", "latest_metrics", "latest_model", "latest_scaler",
      "metrics/", "metrics_", "model_", "models/",
      "out", "predictions/", "processed/", "raw/", "scaler_">>

PieceRank(p) == CHOOSE i \in 1..Len(PieceOrder) : PieceOrder[i] = p

\* k1 < k2 as strings: the order in which list_objects_v2 returns keys.
RECURSIVE KeyLess(_, _)
KeyLess(k1, k2) ==
    IF k1 = <<>> THEN k2 # <<>>
    ELSE IF k2 = <<>> THEN FALSE
    ELSE IF Head(k1) = Head(k2) THEN KeyLess(Tail(k1), Tail(k2))
    ELSE PieceRank(Head(k1)) < PieceRank(Head(k2))

\* The keys of S in the order of KeyLess.
RECURSIVE SortKeys(_)
SortKeys(S) ==
    IF S = {} THEN <<>>
    ELSE LET m == CHOOSE k \in S : \A o \in S \ {k} : KeyLess(k, o)
         IN  <<m>> \o SortKeys(S \ {m})

(***************************************************************************)
(* The world of one invocation: the buckets, the clock, the calls made so  *)
(* far and the calls that fail.  s3[b] maps the keys present in bucket b   *)
(* to [lm |-> LastModified, body |-> what the object holds].               *)
(***************************************************************************)
World(f) == [s3 |-> s3, now |-> now, log |-> <<>>, faults |-> f]

\* The call about to be made fails for a reason of the environment.
Fails(w) == (Len(w.log) + 1) \in w.faults

Logged(w, op, bucket, key, ok, listed) ==
    [w EXCEPT !.log = Append(@, [op |-> op, bucket |-> bucket, key |-> key,
                                 ok |-> ok, listed |-> listed])]

\* LastModified is read only by cleanup_old_models, in its listing of
\* models/ in the artifacts bucket: only there does the model keep it.
Stamp(w, b, key) ==
    IF b = ARTIFACTS_BUCKET /\ startswith(key, "models/") THEN w.now ELSE 0

Store(bucket, key, obj) ==
    [k \in DOMAIN bucket \cup {key} |-> IF k = key THEN obj ELSE bucket[k]]

Remove(bucket, key) == [k \in DOMAIN bucket \ {key} |-> bucket[k]]

Exists(w, b, key) == b \in Buckets /\ key \in DOMAIN w.s3[b]

\* s3_client.get_object: [w, ok, body]
get_object(w, b, key) ==
    LET ok == ~Fails(w) /\ Exists(w, b, key)
    IN  [w |-> Logged(w, "get_object", b, key, ok, <<>>),
         ok |-> ok,
         body |-> IF ok THEN w.s3[b][key].body ELSE "none"]

\* s3_client.put_object / upload_file: [w, ok]
put_object(w, b, key, body) ==
    LET ok == ~Fails(w) /\ b \in Buckets
        w1 == IF ok
              THEN [w EXCEPT !.s3[b] =
                        Store(@, key, [lm |-> Stamp(w, b, key), body |-> body])]
              ELSE w
    IN  [w |-> Logged(w1, "put_object", b, key, ok, <<>>), ok |-> ok]

\* s3_client.copy_object within one bucket: [w, ok]
copy_object(w, b, src, dst) ==
    LET ok == ~Fails(w) /\ Exists(w, b, src)
        w1 == IF ok
              THEN [w EXCEPT !.s3[b] =
                        Store(@, dst, [lm |-> Stamp(w, b, dst),
                                       body |-> w.s3[b][src].body])]
              ELSE w
    IN  [w |-> Logged(w1, "copy_object", b, dst, ok, <<>>), ok |-> ok]

\* s3_client.delete_object: [w, ok]
delete_object(w, b, key) ==
    LET ok == ~Fails(w) /\ b \in Buckets
        w1 == IF ok /\ key \in DOMAIN w.s3[b]
              THEN [w EXCEPT !.s3[b] = Remove(@, key)]
              ELSE w
    IN  [w |-> Logged(w1, "delete_object", b, key, ok, <<>>), ok |-> ok]

\* s3_client.list_objects_v2(Bucket, Prefix): [w, ok, contents]; the
\* response has no 'Contents' when nothing matches (contents = <<>>).
list_objects_v2(w, b, prefix) ==
    LET ok == ~Fails(w) /\ b \in Buckets
        keys == IF ok
                THEN SortKeys({k \in DOMAIN w.s3[b] : startswith(k, prefix)})
                ELSE <<>>
        contents == [i \in 1..Len(keys) |->
                        [Key |-> keys[i], LastModified |-> w.s3[b][keys[i]].lm]]
    IN  [w |-> Logged(w, "list_objects_v2", b, <<prefix>>, ok, contents),
         ok |-> ok,
         contents |-> contents]

\* sagemaker_client.create_training_job: [w, ok]
create_training_job(w, job_name) ==
    LET ok == ~Fails(w)
    IN  [w |-> Logged(w, "create_training_job", "-", job_name, ok, <<>>),
         ok |-> ok]

\* cloudwatch_client.put_metric_data: [w, ok]
put_metric_data(w, metric_name) ==
    LET ok == ~Fails(w)
    IN  [w |-> Logged(w, "put_metric_data", "-", <<metric_name>>, ok, <<>>),
         ok |-> ok]

(***************************************************************************)
(* scripts/lambda_handler.py                                               *)
(* A function that can raise returns [w, exc, val]: exc is "" when it      *)
(* returned val, and the name of the exception otherwise.                  *)
(***************************************************************************)
\* F(v), with v evaluated once: the result of a call, bound to a name.
Let(v, F(_)) == CHOOSE y \in {F(x) : x \in {v}} : TRUE

Returned(w, val) == [w |-> w, exc |-> "", val |-> val]

Raised(w, exc) == [w |-> w, exc |-> exc, val |-> <<>>]

\* f"...{x}...": the format and its arguments
Message(fmt, args) == [fmt |-> fmt, args |-> args]

\* create_response(status_code, message, data=None); data is <<>> for None
\* and <<d>> for a value d.
create_response(w, status_code, message, data) ==
    LET response == [statusCode |-> status_code, message |-> message,
                     timestamp |-> w.now]
    IN  IF Len(data) # 0
        THEN [statusCode |-> status_code, message |-> message,
              timestamp |-> w.now, data |-> data[1]]
        ELSE response

\* send_custom_metric: a failure of put_metric_data is logged and dropped.
send_custom_metric(w, metric_name) == put_metric_data(w, metric_name).w

\* The except branch of process_data_file
file_error(w, object_key, e) ==
    Returned(w, [file |-> object_key, status |-> "error", error |-> e])

\* A process_data_file that reports DataFileProcessed before it copies: the
\* order of metric and write that C3_MetricAfterWrite excludes.
process_data_file_MetricFirst(w, bucket_name, object_key) ==
    Let(get_object(w, bucket_name, object_key), LAMBDA got :
      IF ~got.ok THEN file_error(got.w, object_key, "ClientError")
      ELSE IF got.body = "empty"
      THEN file_error(got.w, object_key, "Empty file")
      ELSE
        Let(replace(object_key, "raw/", "processed/"), LAMBDA processed_key :
        Let(copy_object(send_custom_metric(got.w, "DataFileProcessed"),
                        bucket_name, object_key, processed_key),
            LAMBDA copied :
          IF ~copied.ok THEN file_error(copied.w, object_key, "ClientError")
          ELSE Returned(copied.w,
                        [file |-> object_key, status |-> "processed",
                         processed_location |-> processed_key]))))

\* A process_data_file that moves the file, deleting the raw object after
\* the copy: the deletion outside cleanup that C4_OnlyCleanupDeletes excludes.
process_data_file_Move(w, bucket_name, object_key) ==
    Let(get_object(w, bucket_name, object_key), LAMBDA got :
      IF ~got.ok THEN file_error(got.w, object_key, "ClientError")
      ELSE IF got.body = "empty"
      THEN file_error(got.w, object_key, "Empty file")
      ELSE
        Let(replace(object_key, "raw/", "processed/"), LAMBDA processed_key :
        Let(copy_object(got.w, bucket_name, object_key, processed_key),
            LAMBDA copied :
          IF ~copied.ok THEN file_error(copied.w, object_key, "ClientError")
          ELSE
            Let(delete_object(copied.w, bucket_name, object_key), LAMBDA d :
              IF ~d.ok THEN file_error(d.w, object_key, "ClientError")
              ELSE Returned(send_custom_metric(d.w, "DataFileProcessed"),
                            [file |-> object_key, status |-> "processed",
                             processed_location |-> processed_key])))))

\* process_data_file(bucket_name, object_key): never raises
process_data_file(w, bucket_name, object_key) ==
    Let(get_object(w, bucket_name, object_key), LAMBDA got :
      IF ~got.ok THEN file_error(got.w, object_key, "ClientError")
      ELSE IF got.body = "empty"
      THEN file_error(got.w, object_key, "Empty file")
      ELSE
        Let(replace(object_key, "raw/", "processed/"), LAMBDA processed_key :
        Let(copy_object(got.w, bucket_name, object_key, processed_key),
            LAMBDA copied :
          IF ~copied.ok THEN file_error(copied.w, object_key, "ClientError")
          ELSE Returned(send_custom_metric(copied.w, "DataFileProcessed"),
                        [file |-> object_key, status |-> "processed",
                         processed_location |-> processed_key]))))

\* start_training_job(): never raises
start_training_job(w) ==
    Let(<<"ml-training-job-", strftime(w.now)>>, LAMBDA job_name :
    Let(create_training_job(w, job_name), LAMBDA created :
      IF ~created.ok
      THEN Returned(created.w, [status |-> "error", error |-> "ClientError"])
      ELSE Returned(send_custom_metric(created.w, "TrainingJobStarted"),
                    [training_job_name |-> job_name,
                     training_job_arn |-> <<"arn:", job_name>>,
                     status |-> "started"])))

\* A should_trigger_training whose except branch and whose test of the
\* listing let the training go ahead: it answers True when the listing
\* fails and when processed/ holds no .csv key.
should_trigger_training_Always(w, bucket_name) ==
    Let(list_objects_v2(w, bucket_name, "processed/"), LAMBDA response :
      Returned(response.w, TRUE))

\* should_trigger_training(bucket_name): never raises
should_trigger_training(w, bucket_name) ==
    Let(list_objects_v2(w, bucket_name, "processed/"), LAMBDA response :
      LET csv_files == {i \in 1..Len(response.contents) :
                           endswith(response.contents[i].Key, ".csv")}
      IN  IF ~response.ok THEN Returned(response.w, FALSE)
          ELSE IF Len(response.contents) # 0
          THEN Returned(response.w, Cardinality(csv_files) >= 1)
          ELSE Returned(response.w, FALSE))

\* The loop of handle_s3_trigger from record i on; a record without the
\* keys the loop reads raises KeyError.
RECURSIVE s3_records(_, _, _, _)
s3_records(w, records, i, processed_files) ==
    IF i > Len(records) THEN Returned(w, processed_files)
    ELSE IF "s3" \notin DOMAIN records[i] THEN Raised(w, "KeyError")
    ELSE
      LET bucket_name == records[i].s3.bucket.name
          object_key == records[i].s3.object.key
      IN  IF startswith(object_key, "raw/") /\ endswith(object_key, ".csv")
          THEN
            Let(process_data_file(w, bucket_name, object_key), LAMBDA result :
            Let(Append(processed_files, result.val), LAMBDA files1 :
            Let(should_trigger_training(result.w, bucket_name), LAMBDA trigger :
              IF trigger.val
              THEN Let(start_training_job(trigger.w), LAMBDA training_result :
                   Let(Append(files1, training_result.val), LAMBDA files2 :
                     s3_records(training_result.w, records, i + 1, files2)))
              ELSE s3_records(trigger.w, records, i + 1, files1))))
          ELSE s3_records(w, records, i + 1, processed_files)

\* handle_s3_trigger(event)
handle_s3_trigger(w, event) ==
    Let(s3_records(w, event.Records, 1, <<>>), LAMBDA r :
      IF r.exc # ""
      THEN Returned(r.w, create_response(r.w, 500,
                             Message("S3 trigger error: {}", <<r.exc>>), <<>>))
      ELSE Returned(r.w, create_response(r.w, 200,
                             Message("Processed {} files", <<Len(r.val)>>),
                             <<r.val>>)))

\* The loop of process_all_data over response['Contents'] from entry i on.
RECURSIVE all_data(_, _, _, _)
all_data(w, contents, i, processed_count) ==
    IF i > Len(contents) THEN Returned(w, processed_count)
    ELSE IF endswith(contents[i].Key, ".csv")
    THEN Let(process_data_file(w, DATA_BUCKET, contents[i].Key), LAMBDA result :
           all_data(result.w, contents, i + 1, processed_count + 1))
    ELSE all_data(w, contents, i + 1, processed_count)

\* process_all_data()
process_all_data(w) ==
    Let(list_objects_v2(w, DATA_BUCKET, "raw/"), LAMBDA response :
      IF ~response.ok
      THEN Returned(response.w, create_response(response.w, 500,
               Message("Error processing data: {}", <<"ClientError">>), <<>>))
      ELSE Let(all_data(response.w, response.contents, 1, 0), LAMBDA r :
             Returned(r.w, create_response(r.w, 200,
                 Message("Processed {} data files", <<r.val>>), <<>>))))

\* The entry that sorted(...) without reverse=True puts first, the oldest:
\* the order under which cleanup keeps the 5 oldest objects.
first_by_last_modified_Ascending(contents) ==
    CHOOSE j \in 1..Len(contents) :
        /\ \A k \in 1..Len(contents) :
              contents[k].LastModified >= contents[j].LastModified
        /\ \A k \in 1..(j - 1) :
              contents[k].LastModified > contents[j].LastModified

\* The entry of contents that sorted(..., reverse=True) puts first: the
\* first, in the listed order, of those with the greatest LastModified.
first_by_last_modified(contents) ==
    CHOOSE j \in 1..Len(contents) :
        /\ \A k \in 1..Len(contents) :
              contents[k].LastModified <= contents[j].LastModified
        /\ \A k \in 1..(j - 1) :
              contents[k].LastModified < contents[j].LastModified

\* sorted(contents, key=lambda x: x['LastModified'], reverse=True): a
\* stable sort, so entries of equal LastModified keep their listed order.
RECURSIVE sorted_by_last_modified(_)
sorted_by_last_modified(contents) ==
    IF Len(contents) = 0 THEN <<>>
    ELSE Let(first_by_last_modified(contents), LAMBDA i :
         Let([k \in 1..(Len(contents) - 1) |->
                 IF k < i THEN contents[k] ELSE contents[k + 1]], LAMBDA rest :
           <<contents[i]>> \o sorted_by_last_modified(rest)))

\* objects[5:]
old_models(objects) == SubSeq(objects, KEEP_MODELS + 1, Len(objects))

\* The loop of cleanup_old_models over objects[5:] from entry i on.
RECURSIVE delete_old(_, _, _, _)
delete_old(w, objects, i, deleted_count) ==
    IF i > Len(objects) THEN Returned(w, deleted_count)
    ELSE Let(delete_object(w, ARTIFACTS_BUCKET, objects[i].Key), LAMBDA d :
           IF ~d.ok THEN Raised(d.w, "ClientError")
           ELSE delete_old(d.w, objects, i + 1, deleted_count + 1))

\* cleanup_old_models()
cleanup_old_models(w) ==
    Let(list_objects_v2(w, ARTIFACTS_BUCKET, "models/"), LAMBDA response :
      IF ~response.ok
      THEN Returned(response.w, create_response(response.w, 500,
               Message("Cleanup error: {}", <<"ClientError">>), <<>>))
      ELSE
        Let(sorted_by_last_modified(response.contents), LAMBDA objects :
        Let(delete_old(response.w, old_models(objects), 1, 0), LAMBDA r :
          IF r.exc # ""
          THEN Returned(r.w, create_response(r.w, 500,
                   Message("Cleanup error: {}", <<r.exc>>), <<>>))
          ELSE Returned(r.w, create_response(r.w, 200,
                   Message("Cleaned up {} old models", <<r.val>>), <<>>)))))

\* handle_direct_invocation(event)
handle_direct_invocation(w, event) ==
    LET action == event.action
    IN  IF action = "train_model" THEN start_training_job(w)
        ELSE IF action = "process_data" THEN process_all_data(w)
        ELSE IF action = "cleanup_old_models" THEN cleanup_old_models(w)
        ELSE Returned(w, create_response(w, 400,
                 Message("Unknown action: {}", <<action>>), <<>>))

\* handle_scheduled_trigger(event)
handle_scheduled_trigger(w, event) ==
    LET action == IF "action" \in DOMAIN event THEN event.action
                  ELSE "train_model"
    IN  IF action = "train_model" THEN start_training_job(w)
        ELSE Returned(w, create_response(w, 400,
                 Message("Unknown scheduled action: {}", <<action>>), <<>>))

\* A routing that tests action before Records: the priority that
\* C2_RoutingByPriority excludes.
Route_ActionFirst(event) ==
    IF "action" \in DOMAIN event THEN "handle_direct_invocation"
    ELSE IF "Records" \in DOMAIN event THEN "handle_s3_trigger"
    ELSE IF "trigger_type" \in DOMAIN event THEN "handle_scheduled_trigger"
    ELSE "none"

\* The handler lambda_handler hands the event to.
Route(event) ==
    IF "Records" \in DOMAIN event THEN "handle_s3_trigger"
    ELSE IF "action" \in DOMAIN event THEN "handle_direct_invocation"
    ELSE IF "trigger_type" \in DOMAIN event THEN "handle_scheduled_trigger"
    ELSE "none"

\* The call of the handler in lambda_handler.
Dispatch(w, event, route) ==
    IF route = "handle_s3_trigger" THEN handle_s3_trigger(w, event)
    ELSE IF route = "handle_direct_invocation"
    THEN handle_direct_invocation(w, event)
    ELSE IF route = "handle_scheduled_trigger"
    THEN handle_scheduled_trigger(w, event)
    ELSE Returned(w, create_response(w, 400,
             Message("Unknown event type", <<>>), <<>>))

\* lambda_handler(event, context) of the pipeline: [w, exc, val, route]
lambda_handler(w, event) ==
    Let(Route(event), LAMBDA route :
    Let(Dispatch(w, event, route), LAMBDA r :
      IF r.exc # ""
      THEN [w |-> r.w, exc |-> "", route |-> route,
            val |-> create_response(r.w, 500, Message("Error: {}", <<r.exc>>),
                                    <<>>)]
      ELSE [w |-> r.w, exc |-> "", val |-> r.val, route |-> route]))

(***************************************************************************)
(* scripts/batch_inference.py                                              *)
(***************************************************************************)
DefaultInputDataKey == <<"processed/", "batch_input", ".csv">>

DefaultModelKey == <<"models/", "latest_model", ".joblib">>

DefaultOutputKey(w) ==
    <<"predictions/", "batch_predictions_", strftime(w.now), ".csv">>

\* event.get(key, default)
event_get(event, key, default) ==
    IF key \in DOMAIN event THEN event[key] ELSE default

\* A load_model_from_s3 that hands on whatever it got, without the except
\* branch that returns None: the batch inference then goes on to the data.
load_model_from_s3_NoExcept(w, model_key) ==
    Let(get_object(w, ARTIFACTS_BUCKET, model_key), LAMBDA got :
      IF got.ok /\ got.body = "scaler"
      THEN Returned(got.w, "scaler")
      ELSE Returned(got.w, "model"))

\* load_model_from_s3(model_key): [w, val]; val is "None" when the object
\* cannot be read or joblib cannot load it, and else what the object
\* holds: a fitted model ("model") or a StandardScaler ("scaler").
load_model_from_s3(w, model_key) ==
    Let(get_object(w, ARTIFACTS_BUCKET, model_key), LAMBDA got :
      IF got.ok /\ got.body \in {"model", "scaler"}
      THEN Returned(got.w, got.body)
      ELSE Returned(got.w, "None"))

\* load_data_from_s3(data_key): [w, val]; val is "None" when the object
\* cannot be read or pandas cannot parse it, and else "DataFrame".
load_data_from_s3(w, data_key) ==
    Let(get_object(w, DATA_BUCKET, data_key), LAMBDA got :
      IF got.ok /\ got.body = "csv"
      THEN Returned(got.w, "DataFrame")
      ELSE Returned(got.w, "None"))

\* perform_batch_predictions(model, input_data): the features go to the
\* model as they are read (X = input_data[feature_columns], fillna); the
\* call of the estimator is a step of the log, which fails when the loaded
\* object has no predict method or the library raises.
perform_batch_predictions(w, model, input_data) ==
    LET ok == ~Fails(w) /\ model = "model"
        w1 == Logged(w, "predict", "-", <<"X">>, ok, <<>>)
    IN  IF ok THEN Returned(w1, "predictions") ELSE Raised(w1, "Exception")

\* A save_predictions_to_s3 that logs the failure of put_object and does
\* not raise it again: the batch inference then reports success.
save_predictions_to_s3_Swallow(w, predictions, input_data, output_key) ==
    Let(put_object(w, ARTIFACTS_BUCKET, output_key, "predictions"), LAMBDA put :
      Returned(put.w, "None"))

\* save_predictions_to_s3(predictions, input_data, output_key)
save_predictions_to_s3(w, predictions, input_data, output_key) ==
    Let(put_object(w, ARTIFACTS_BUCKET, output_key, "predictions"), LAMBDA put :
      IF put.ok THEN Returned(put.w, "None") ELSE Raised(put.w, "ClientError"))

\* The except branch of the batch lambda_handler
batch_failed(w, exc) ==
    Let(send_custom_metric(w, "BatchInferenceErrors"), LAMBDA w1 :
      [w |-> w1, exc |-> "", route |-> "batch",
       val |-> create_response(w1, 500,
                   Message("Batch inference error: {}", <<exc>>), <<>>)])

\* The metrics and the response of a batch inference that succeeded
batch_completed(w, input_data_key, model_key, output_key) ==
    Let(send_custom_metric(w, "BatchInferenceCompleted"), LAMBDA w1 :
    Let(send_custom_metric(w1, "PredictionCount"), LAMBDA w2 :
      [w |-> w2, exc |-> "", route |-> "batch",
       val |-> create_response(w2, 200,
                   Message("Batch inference completed successfully", <<>>),
                   <<[input_data_key |-> input_data_key,
                      model_key |-> model_key,
                      output_key |-> output_key,
                      prediction_count |-> "len(predictions)",
                      output_location |->
                          <<"s3://", ARTIFACTS_BUCKET, "/">> \o output_key]>>)]))

\* lambda_handler(event, context) of the batch inference: [w, exc, val, route]
batch_lambda_handler(w, event) ==
    Let(event_get(event, "input_data_key", DefaultInputDataKey),
        LAMBDA input_data_key :
    Let(event_get(event, "model_key", DefaultModelKey), LAMBDA model_key :
    Let(event_get(event, "output_key", DefaultOutputKey(w)), LAMBDA output_key :
    Let(load_model_from_s3(w, model_key), LAMBDA model :
      IF model.val = "None"
      THEN [w |-> model.w, exc |-> "", route |-> "batch",
            val |-> create_response(model.w, 404,
                        Message("Model not found", <<>>), <<>>)]
      ELSE
        Let(load_data_from_s3(model.w, input_data_key), LAMBDA input_data :
          IF input_data.val = "None"
          THEN [w |-> input_data.w, exc |-> "", route |-> "batch",
                val |-> create_response(input_data.w, 404,
                            Message("Input data not found", <<>>), <<>>)]
          ELSE
            Let(perform_batch_predictions(input_data.w, model.val,
                                          input_data.val), LAMBDA predictions :
              IF predictions.exc # ""
              THEN batch_failed(predictions.w, predictions.exc)
              ELSE
                Let(save_predictions_to_s3(predictions.w, predictions.val,
                                           input_data.val, output_key),
                    LAMBDA saved :
                  IF saved.exc # "" THEN batch_failed(saved.w, saved.exc)
                  ELSE batch_completed(saved.w, input_data_key, model_key,
                                       output_key))))))))

(***************************************************************************)
(* scripts/train_model.py                                                  *)
(***************************************************************************)
\* The uploads of save_model_artifacts, in order: <<key, body>>.  The
\* first four carry the timestamp of the run, the last four are the
\* "latest" copies.
ArtifactUploads(timestamp) ==
    << <<<<"models/", "model_", timestamp, ".joblib">>, "model">>,
       <<<<"models/", "scaler_", timestamp, ".joblib">>, "scaler">>,
       <<<<"models/", "feature_names_", timestamp, ".json">>, "json">>,
       <<<<"metrics/", "metrics_", timestamp, ".json">>, "json">>,
       <<<<"models/", "latest_model", ".joblib">>, "model">>,
       <<<<"models/", "latest_scaler", ".joblib">>, "scaler">>,
       <<<<"models/", "latest_feature_names", ".json">>, "json">>,
       <<<<"metrics/", "latest_metrics", ".json">>, "json">> >>

\* The uploads from the i-th on; the first that fails raises.  The clock
\* moves by `elapsed` before the "latest" copies are uploaded.
RECURSIVE upload_files(_, _, _, _)
upload_files(w, uploads, i, elapsed) ==
    IF i > Len(uploads) THEN Returned(w, "None")
    ELSE Let(IF i = 5 THEN [w EXCEPT !.now = @ + elapsed] ELSE w, LAMBDA w0 :
         Let(put_object(w0, ARTIFACTS_BUCKET, uploads[i][1], uploads[i][2]),
             LAMBDA put :
           IF ~put.ok THEN Raised(put.w, "ClientError")
           ELSE upload_files(put.w, uploads, i + 1, elapsed)))

\* save_model_artifacts(model, scaler, feature_names, metrics)
save_model_artifacts(w, elapsed) ==
    upload_files(w, ArtifactUploads(strftime(w.now)), 1, elapsed)

\* main(): the data is generated, the model and its scaler are fitted and
\* evaluated in memory, and the artifacts are saved; an exception is
\* raised again.
main(w, elapsed) ==
    Let(save_model_artifacts(w, elapsed), LAMBDA r :
      [w |-> r.w, exc |-> r.exc, val |-> r.val, route |-> "main"])

(***************************************************************************)
(* The inputs of the model.                                                *)
(***************************************************************************)
RawA == <<"raw/", "a", ".csv">>
RawText == <<"raw/", "a", ".txt">>
ProcessedA == <<"processed/", "a", ".csv">>

\* What is dropped into the data bucket: a CSV with rows, or a file of
\* zero bytes.
UploadKeys == {RawA}
UploadBodies == {"csv", "empty"}

\* A record of an S3 event, as the event source writes it.
Record(bucket_name, object_key) ==
    [s3 |-> [bucket |-> [name |-> bucket_name], object |-> [key |-> object_key]]]

\* A record that lacks the keys handle_s3_trigger reads.
MalformedRecord == [eventSource |-> "aws:s3"]

RecordSet ==
    {Record(DATA_BUCKET, RawA), Record(DATA_BUCKET, RawText),
     Record(DATA_BUCKET, ProcessedA), Record(ARTIFACTS_BUCKET, RawA)}

RECURSIVE SeqsUpTo(_, _)
SeqsUpTo(S, n) ==
    IF n = 0 THEN {<<>>}
    ELSE LET shorter == SeqsUpTo(S, n - 1)
         IN  shorter \cup {Append(q, x) : q \in shorter, x \in S}

\* The values of event['Records']: the lists of well-formed records, and
\* those that end in a malformed one.  An event that has further keys
\* beside Records carries the record of RawA.
RecordLists(keys) ==
    IF keys = {"Records"}
    THEN SeqsUpTo(RecordSet, MaxRecords)
         \cup {Append(q, MalformedRecord) :
                   q \in SeqsUpTo(RecordSet, MaxRecords - 1)}
    ELSE {<<Record(DATA_BUCKET, RawA)>>}

Actions == {"train_model", "process_data", "cleanup_old_models", "retrain"}

PipelineKeys == {"Records", "action", "trigger_type"}

\* The pipeline event with the keys `keys`.
PipelineEvent(keys, records, action) ==
    [k \in keys |-> IF k = "Records" THEN records
                    ELSE IF k = "action" THEN action
                    ELSE "scheduled"]

BatchKeys == {"input_data_key", "model_key"}

ModelKeys == {<<"models/", "latest_scaler", ".joblib">>,
              <<"metrics/", "latest_metrics", ".json">>}

\* The batch-inference event with the keys `keys`; the output goes to the
\* default key.
BatchEvent(keys, model_key) ==
    [k \in keys |-> IF k = "input_data_key" THEN ProcessedA ELSE model_key]

\* The invocation that has just finished, until its result is handed
\* back: the entry point, the handler the event went to, the keys of the
\* event, what was returned or raised, and the calls made.
Step(op, keys, r) ==
    [op |-> op, route |-> r.route, keys |-> keys, val |-> r.val,
     exc |-> r.exc, log |-> r.w.log]

\* No invocation is in flight.
Idle ==
    [op |-> "idle", route |-> "-", keys |-> {}, val |-> <<>>, exc |-> "",
     log |-> <<>>]

(***************************************************************************)
(* The state machine.  An invocation runs to its end in one step (the      *)
(* Lambdas are invoked one at a time); the next step hands its result back.*)
(***************************************************************************)
Init ==
    /\ s3 = [b \in Buckets |-> <<>>]
    /\ now = 0
    /\ last = Idle

\* A file is dropped into the data bucket.
Upload ==
    /\ last = Idle
    /\ \E key \in UploadKeys, body \in UploadBodies :
           s3' = [s3 EXCEPT ![DATA_BUCKET] =
                     Store(@, key, [lm |-> 0, body |-> body])]
    /\ UNCHANGED <<now, last>>

\* Time passes.
Tick ==
    /\ last = Idle
    /\ now < MaxClock
    /\ now' = now + 1
    /\ UNCHANGED <<s3, last>>

Finish(op, keys, r) ==
    /\ s3' = r.w.s3
    /\ now' = r.w.now
    /\ last' = Step(op, keys, r)

\* An invocation of run(_) in which the calls of `faults` fail, and up to
\* `more` later ones: any call the run makes may be the next to fail.
RECURSIVE Outcome(_, _, _, _, _, _)
Outcome(op, keys, run(_), faults, first, more) ==
    \E r \in {run(World(faults))} :
        \/ Finish(op, keys, r)
        \/ /\ more > 0
           /\ \E call \in first..Len(r.w.log) :
                  Outcome(op, keys, run, faults \cup {call}, call + 1, more - 1)

\* The pipeline Lambda is invoked with `event`.
Invoke(event) ==
    Outcome("pipeline", DOMAIN event, LAMBDA w : lambda_handler(w, event),
            {}, 1, MaxFaults)

Pipeline ==
    /\ last = Idle
    /\ \E keys \in SUBSET PipelineKeys :
        IF "Records" \in keys
        THEN \E records \in RecordLists(keys) :
                    Invoke(PipelineEvent(keys, records, "train_model"))
        ELSE \E action \in (IF "action" \in keys THEN Actions ELSE {"-"}) :
                    Invoke(PipelineEvent(keys, <<>>, action))

\* The batch-inference Lambda is invoked.
BatchInference ==
    /\ last = Idle
    /\ \E keys \in SUBSET BatchKeys :
        \E model_key \in (IF "model_key" \in keys THEN ModelKeys
                          ELSE {DefaultModelKey}) :
            Outcome("batch", keys,
                    LAMBDA w : batch_lambda_handler(w, BatchEvent(keys, model_key)),
                    {}, 1, MaxFaults)

\* The training script runs to its end; the clock moves by `elapsed`
\* while it does.
Train ==
    /\ last = Idle
    /\ \E elapsed \in 0..1 :
        /\ now + elapsed <= MaxClock
        /\ Outcome("train", {}, LAMBDA w : main(w, elapsed), {}, 1, 0)

\* The result of the invocation is handed back to the invoker.
Return ==
    /\ last # Idle
    /\ last' = Idle
    /\ UNCHANGED <<s3, now>>

Next == Upload \/ Tick \/ Pipeline \/ BatchInference \/ Train \/ Return

Spec == Init /\ [][Next]_vars

(***************************************************************************)
(* What the log of the invocation in `last` says.                          *)
(***************************************************************************)
Calls == 1..Len(last.log)

IsCall(i, op) == i \in Calls /\ last.log[i].op = op

IsMetric(i, metric_name) ==
    IsCall(i, "put_metric_data") /\ last.log[i].key = <<metric_name>>

\* The i-th call wrote an object (put or copy) and succeeded.
Succeeded(i, op) == IsCall(i, op) /\ last.log[i].ok

HasStatus(status_code) ==
    /\ "statusCode" \in DOMAIN last.val
    /\ last.val.statusCode = status_code

HasMessage(fmt) ==
    /\ "message" \in DOMAIN last.val
    /\ last.val.message.fmt = fmt

KeysOf(b) == DOMAIN s3[b]

(***************************************************************************)
(* C1: for every event and every outcome of the external calls, the        *)
(* pipeline lambda_handler does not raise and returns a dictionary with a  *)
(* statusCode and a message.                                               *)
(***************************************************************************)
C1_StandardResponse ==
    last.op = "pipeline" =>
        /\ last.exc = ""
        /\ {"statusCode", "message"} \subseteq DOMAIN last.val

(***************************************************************************)
(* C2: the pipeline lambda_handler routes by fixed priority: Records goes  *)
(* to the S3 handler, else action to the direct-invocation handler, else   *)
(* trigger_type to the scheduled handler; an event with none of the three  *)
(* gets 400 'Unknown event type' and causes no external call.              *)
(***************************************************************************)
C2_RoutingByPriority ==
    last.op = "pipeline" =>
        /\ "Records" \in last.keys =>
              /\ last.route = "handle_s3_trigger"
              /\ \/ HasMessage("Processed {} files")
                 \/ HasMessage("S3 trigger error: {}")
        /\ ("Records" \notin last.keys /\ "action" \in last.keys) =>
              last.route = "handle_direct_invocation"
        /\ ("Records" \notin last.keys /\ "action" \notin last.keys
                /\ "trigger_type" \in last.keys) =>
              /\ last.route = "handle_scheduled_trigger"
              /\ "status" \in DOMAIN last.val
        /\ last.keys \cap PipelineKeys = {} =>
              /\ last.route = "none"
              /\ HasStatus(400)
              /\ HasMessage("Unknown event type")
              /\ Len(last.val.message.args) = 0
              /\ last.log = <<>>

\* An event with all three keys went to the S3 handler, which processed
\* its record.
C2_Witness ==
    /\ last.op = "pipeline"
    /\ last.keys = PipelineKeys
    /\ last.route = "handle_s3_trigger"
    /\ \E i \in Calls : Succeeded(i, "copy_object")

(***************************************************************************)
(* C3: a success metric is sent only right after the write it reports has  *)
(* succeeded: DataFileProcessed after copy_object, TrainingJobStarted      *)
(* after create_training_job, BatchInferenceCompleted and PredictionCount  *)
(* after the predictions object was put; none is sent when the write       *)
(* failed.                                                                 *)
(***************************************************************************)
C3_MetricAfterWrite ==
    \A i \in Calls :
        /\ IsMetric(i, "DataFileProcessed") => Succeeded(i - 1, "copy_object")
        /\ IsMetric(i, "TrainingJobStarted") =>
              Succeeded(i - 1, "create_training_job")
        /\ IsMetric(i, "BatchInferenceCompleted") =>
              /\ Succeeded(i - 1, "put_object")
              /\ last.log[i - 1].bucket = ARTIFACTS_BUCKET
        /\ IsMetric(i, "PredictionCount") =>
              /\ IsMetric(i - 1, "BatchInferenceCompleted")
              /\ Succeeded(i - 2, "put_object")

\* An S3 trigger that copied a file and started a training job, with both
\* metrics sent.
C3_Witness ==
    /\ last.op = "pipeline"
    /\ \E i \in Calls : IsMetric(i, "DataFileProcessed") /\ last.log[i].ok
    /\ \E i \in Calls : IsMetric(i, "TrainingJobStarted") /\ last.log[i].ok

(***************************************************************************)
(* C4 as stated: no operation ever deletes an object; the keys of each     *)
(* bucket only grow.                                                       *)
(***************************************************************************)
C4_KeysOnlyGrow ==
    [][\A b \in Buckets : KeysOf(b) \subseteq DOMAIN s3'[b]]_vars

(***************************************************************************)
(* C4 amended: the keys of the data bucket only grow, and a key leaves the *)
(* artifacts bucket only under models/, deleted by a delete_object call of *)
(* the cleanup_old_models action of the pipeline Lambda.                   *)
(***************************************************************************)
C4_OnlyCleanupDeletes ==
    [][/\ KeysOf(DATA_BUCKET) \subseteq DOMAIN s3'[DATA_BUCKET]
       /\ \A k \in KeysOf(ARTIFACTS_BUCKET) \ DOMAIN s3'[ARTIFACTS_BUCKET] :
             /\ startswith(k, "models/")
             /\ last'.op = "pipeline"
             /\ last'.route = "handle_direct_invocation"
             /\ last'.log[1].op = "list_objects_v2"
             /\ last'.log[1].key = <<"models/">>
             /\ \E i \in 1..Len(last'.log) :
                   /\ last'.log[i].op = "delete_object"
                   /\ last'.log[i].ok
                   /\ last'.log[i].key = k]_vars

\* A cleanup that deleted an object of the artifacts bucket.
C4_Witness ==
    /\ last.op = "pipeline"
    /\ \E i \in Calls :
          /\ Succeeded(i, "delete_object")
          /\ last.log[i].key \notin KeysOf(ARTIFACTS_BUCKET)

(***************************************************************************)
(* What the log says of a batch inference.                                 *)
(***************************************************************************)
\* load_model_from_s3 gave an object: the first call read one joblib loads.
ModelLoaded ==
    /\ Succeeded(1, "get_object")
    /\ last.log[1].bucket = ARTIFACTS_BUCKET
    /\ s3[ARTIFACTS_BUCKET][last.log[1].key].body \in {"model", "scaler"}

\* load_data_from_s3 gave a DataFrame: the second call read a CSV.
DataLoaded ==
    /\ Succeeded(2, "get_object")
    /\ last.log[2].bucket = DATA_BUCKET
    /\ s3[DATA_BUCKET][last.log[2].key].body = "csv"

\* A scaler was read from the artifacts bucket before the i-th call.
ScalerLoadedBefore(i) ==
    \E j \in 1..(i - 1) :
        /\ Succeeded(j, "get_object")
        /\ last.log[j].bucket = ARTIFACTS_BUCKET
        /\ startswith(last.log[j].key, "models/")
        /\ last.log[j].key[2] \in {"latest_scaler", "scaler_"}

\* The predictions objects written by the invocation.
Written ==
    {i \in Calls : /\ Succeeded(i, "put_object")
                   /\ last.log[i].bucket = ARTIFACTS_BUCKET}

(***************************************************************************)
(* C5: in every batch inference that reaches prediction, the scaler saved  *)
(* with the model has been loaded from the artifacts bucket and applied to *)
(* the features before the model predicts.                                 *)
(***************************************************************************)
C5_ScalerApplied ==
    last.op = "batch" =>
        \A i \in Calls :
            Succeeded(i, "predict") =>
                /\ ScalerLoadedBefore(i)
                /\ last.log[i].key = <<"scaler.transform(X)">>

(***************************************************************************)
(* C6: after a successful cleanup_old_models the objects under models/ are *)
(* exactly 5 of the listed objects (all of them when at most 5 were        *)
(* listed), none of them older than a deleted one; every other listed      *)
(* object was deleted, and the reported count is the number deleted.       *)
(***************************************************************************)
Listed == last.log[1].listed

ListedKeys == {Listed[i].Key : i \in 1..Len(Listed)}

Remaining == {k \in KeysOf(ARTIFACTS_BUCKET) : startswith(k, "models/")}

LastModifiedOf(k) ==
    Listed[CHOOSE i \in 1..Len(Listed) : Listed[i].Key = k].LastModified

CleanedUp == last.op = "pipeline" /\ HasMessage("Cleaned up {} old models")

C6_KeepsFiveMostRecent ==
    CleanedUp =>
        /\ HasStatus(200)
        /\ Remaining \subseteq ListedKeys
        /\ Cardinality(Remaining) =
              (IF Len(Listed) <= 5 THEN Len(Listed) ELSE 5)
        /\ \A d \in ListedKeys \ Remaining, k \in Remaining :
              LastModifiedOf(d) <= LastModifiedOf(k)
        /\ \A d \in ListedKeys \ Remaining :
              \E i \in Calls : Succeeded(i, "delete_object") /\ last.log[i].key = d
        /\ last.val.message.args[1] = Cardinality(ListedKeys \ Remaining)

\* A cleanup that deleted objects, one of them older than all it kept.
C6_Witness ==
    /\ CleanedUp
    /\ last.val.message.args[1] >= 1
    /\ \E d \in ListedKeys \ Remaining :
          \A k \in Remaining : LastModifiedOf(d) < LastModifiedOf(k)

(***************************************************************************)
(* C7: after process_data_file has processed a key under raw/, the object  *)
(* is at the processed location and no longer at the raw key.              *)
(***************************************************************************)
C7_FileMoved ==
    last.op = "pipeline" =>
        \A i \in Calls :
            Succeeded(i, "copy_object") =>
                /\ last.log[i].key \in KeysOf(last.log[i].bucket)
                /\ last.log[i - 1].key \notin KeysOf(last.log[i].bucket)

(***************************************************************************)
(* C8: in the batch inference, when the model cannot be loaded the         *)
(* response is 404 'Model not found' and nothing else is called (the input *)
(* is not read, nothing is written, no metric is sent); when the model     *)
(* loads and the input cannot be loaded the response is 404 'Input data    *)
(* not found' and nothing is written.                                      *)
(***************************************************************************)
C8_NotFound ==
    last.op = "batch" =>
        /\ ~ModelLoaded =>
              /\ HasStatus(404)
              /\ HasMessage("Model not found")
              /\ Len(last.log) = 1
        /\ (ModelLoaded /\ ~DataLoaded) =>
              /\ HasStatus(404)
              /\ HasMessage("Input data not found")
              /\ Written = {}
              /\ Len(last.log) = 2

\* The model was loaded and the input data was not.
C8_Witness ==
    /\ last.op = "batch"
    /\ ModelLoaded
    /\ ~DataLoaded
    /\ HasMessage("Input data not found")

(***************************************************************************)
(* C9: the batch inference returns 200 if and only if a predictions object *)
(* was written to the artifacts bucket, at the output_key of the response; *)
(* when prediction or saving fails after both loads, it returns 500, sends *)
(* BatchInferenceErrors and writes nothing to the artifacts bucket.        *)
(***************************************************************************)
C9_WrittenIffOk ==
    last.op = "batch" =>
        /\ HasStatus(200) <=> Written # {}
        /\ HasStatus(200) =>
              \A i \in Written :
                  /\ last.log[i].key = last.val.data.output_key
                  /\ last.log[i].key \in KeysOf(ARTIFACTS_BUCKET)
                  /\ s3[ARTIFACTS_BUCKET][last.log[i].key].body = "predictions"
        /\ (ModelLoaded /\ DataLoaded /\ ~HasStatus(200)) =>
              /\ HasStatus(500)
              /\ HasMessage("Batch inference error: {}")
              /\ IsMetric(Len(last.log), "BatchInferenceErrors")
              /\ Written = {}

\* Both loads succeeded and the saving failed.
C9_Witness ==
    /\ last.op = "batch"
    /\ HasStatus(500)
    /\ \E i \in Calls : IsCall(i, "put_object") /\ ~last.log[i].ok

(***************************************************************************)
(* C10: the count in 'Processed N files' and 'Processed N data files' is   *)
(* the number of data files processed (copied to processed/) by the        *)
(* invocation.                                                             *)
(***************************************************************************)
C10_CountIsFilesProcessed ==
    (last.op = "pipeline"
       /\ (HasMessage("Processed {} files") \/ HasMessage("Processed {} data files")))
    => last.val.message.args[1] =
           Cardinality({i \in Calls : Succeeded(i, "copy_object")})

(***************************************************************************)
(* What the log says of an S3 trigger.                                     *)
(***************************************************************************)
\* The i-th call is the listing of should_trigger_training.
IsTrainingCheck(i) ==
    /\ IsCall(i, "list_objects_v2")
    /\ last.log[i].key = <<"processed/">>

\* The listing of the i-th call succeeded and holds a key ending in .csv.
ListsCsv(i) ==
    /\ last.log[i].ok
    /\ \E n \in 1..Len(last.log[i].listed) :
          endswith(last.log[i].listed[n].Key, ".csv")

\* The j-th call is the read of process_data_file for a record of bucket b
\* whose key is a raw CSV, and no other record is read before call i.
ReadsRawCsv(j, i, b) ==
    /\ IsCall(j, "get_object")
    /\ last.log[j].bucket = b
    /\ startswith(last.log[j].key, "raw/")
    /\ endswith(last.log[j].key, ".csv")
    /\ \A k \in (j + 1)..(i - 1) : ~IsCall(k, "get_object")

(***************************************************************************)
(* C11: on an S3 trigger, create_training_job is called for a record only  *)
(* right after the listing of processed/ in that record's bucket succeeded *)
(* with a key ending in .csv, the record's key being a raw CSV (raw/...,   *)
(* .csv); after a listing that failed or held no such key, no training job *)
(* is started, and a record whose key is no raw CSV causes no call at all. *)
(***************************************************************************)
C11_TrainingOnlyWithProcessedCsv ==
    (last.op = "pipeline" /\ last.route = "handle_s3_trigger") =>
        /\ \A i \in Calls :
              IsCall(i, "create_training_job") =>
                  /\ IsTrainingCheck(i - 1)
                  /\ ListsCsv(i - 1)
                  /\ \E j \in 1..(i - 2) :
                        ReadsRawCsv(j, i - 1, last.log[i - 1].bucket)
        /\ \A i \in Calls :
              (IsTrainingCheck(i) /\ ~ListsCsv(i)) =>
                  ~IsCall(i + 1, "create_training_job")
        /\ \A i \in Calls :
              IsCall(i, "get_object") =>
                  /\ startswith(last.log[i].key, "raw/")
                  /\ endswith(last.log[i].key, ".csv")

\* An S3 trigger whose record could not be read, and for which a training
\* job was started all the same, processed/ holding a .csv from before.
C11_Witness ==
    /\ last.op = "pipeline"
    /\ last.route = "handle_s3_trigger"
    /\ \E i \in Calls :
          /\ Succeeded(i, "create_training_job")
          /\ IsTrainingCheck(i - 1)
          /\ ListsCsv(i - 1)
          /\ IsCall(i - 2, "get_object")
          /\ ~last.log[i - 2].ok

====
